---------------------------- MODULE Spec2Model ----------------------------
(***************************************************************************)
(* Task & RPC subsystem of the resume optimizer A2A agent                  *)
(* (resume_optimizer/a2a/jsonrpc_handler.py, messages.py, agent_card.py).  *)
(*                                                                         *)
(* The handler runs on one asyncio event loop: a coroutine runs without    *)
(* interruption until it awaits something that really suspends.  Every     *)
(* action below is one such uninterrupted stretch of code.                 *)
(***************************************************************************)
EXTENDS Integers, Sequences, FiniteSets, TLC

(***************************************************************************)
(* Bounds of the model.                                                    *)
(***************************************************************************)
\* tasks/create requests served in one run of the lifecycle specification
MaxTasks == 1
\* readings of the clock: 0..MaxClock
MaxClock == 1
\* size of the task tables tasks/list is applied to
MaxListed == 3
\* limit and offset parameters of tasks/list: 0..MaxLimit
MaxLimit == 2
MaxRequestId == 3
MaxConns == 2

(***************************************************************************)
(* messages.py: TaskStatus, JSONRPCErrorCode; Optional fields.             *)
(***************************************************************************)
PENDING == "pending"
IN_PROGRESS == "in_progress"
COMPLETED == "completed"
FAILED == "failed"
CANCELLED == "cancelled"
TaskStatus == {PENDING, IN_PROGRESS, COMPLETED, FAILED, CANCELLED}

METHOD_NOT_FOUND == -32601
INVALID_PARAMS == -32602
INTERNAL_ERROR == -32603
TASK_NOT_FOUND == -32001

\* Python's None for the Optional string/dict fields, and for completed_at.
None == "None"
NoTime == -1
\* A request without task_id (params.get gives None, and "not task_id" holds).
NoTaskId == 0

(***************************************************************************)
(* agent_card.py: the ids of the skills of RESUME_OPTIMIZER_AGENT_CARD.    *)
(***************************************************************************)
valid_skills == <<"optimize-resume", "extract-job-description", "calculate-ats-score">>
SkillIds == {valid_skills[i] : i \in 1..Len(valid_skills)}

\* Request inputs.  A skill_id outside the manifest, or none at all; an input
\* payload that carries the fields the skill needs ("complete") or not.
UnknownSkill == "no-such-skill"
SkillParams == SkillIds \cup {UnknownSkill, None}
Inputs == {"complete", "missing"}
MessageParams == {"valid", "invalid", None}

VARIABLES
    tasks,      \* self.tasks: the task table, in insertion order; id = index
    exec,       \* per task, where its spawned _execute_task stands
    workflow,   \* self.workflow is set
    now,        \* the clock read by datetime.utcnow()
    last,       \* the handler step that ran last, with its request and response
    sessions,   \* MCPClientManager.sessions: per endpoint, its session (a connection)
    contexts,   \* MCPClientManager._contexts: per endpoint, its (session, transport)
    tools_cache, \* MCPClientManager._tools_cache: per endpoint, its tool list
    conns,      \* every transport/session pair created so far, and what became of it
    calls,      \* per caller of the client, the call it has in progress or made last
    listed,     \* per endpoint, the list list_tools returned since its last disconnect
    run         \* the run_workflow call in progress or made last

handlerVars == <<tasks, exec, workflow, now, last>>
clientVars == <<sessions, contexts, tools_cache, conns, calls, listed>>
vars == <<tasks, exec, workflow, now, last,
          sessions, contexts, tools_cache, conns, calls, listed, run>>

TaskIds == 1..Len(tasks)

(***************************************************************************)
(* What a coroutine does: return a value or raise an exception.            *)
(***************************************************************************)
Return(v) == [kind |-> "return", value |-> v, exc |-> None, msg |-> None, args |-> <<>>]
Raise(e, m, a) == [kind |-> "raise", value |-> None, exc |-> e, msg |-> m, args |-> a]

(***************************************************************************)
(* The skills.  Each operator gives the set of outcomes of the coroutine   *)
(* of the same name; external collaborators (run_workflow, the job         *)
(* extractor, the MCP tool) may return or raise.                           *)
(***************************************************************************)
execute_optimize_resume_task(input, wf) ==
    IF input = "missing"
    THEN {[out |-> Return("demo"), workflow_raised |-> FALSE]}
    ELSE IF wf
    THEN {[out |-> Return("workflow_result"), workflow_raised |-> FALSE],
          [out |-> Return("workflow_error_info"), workflow_raised |-> TRUE]}
    ELSE {[out |-> Return("placeholder"), workflow_raised |-> FALSE]}

execute_extract_job_task(input, wf) ==
    IF input = "missing"
    THEN {[out |-> Raise("ValueError", "Either 'job_url' or 'job_text' is required", <<>>),
           workflow_raised |-> FALSE]}
    ELSE {[out |-> Return("job_data"), workflow_raised |-> FALSE]}
         \cup (IF wf THEN {[out |-> Return("job_error_fallback"), workflow_raised |-> FALSE]}
                     ELSE {})

execute_calculate_ats_task(input) ==
    IF input = "missing"
    THEN {[out |-> Raise("ValueError", "Both 'resume_text' and 'job_description' are required", <<>>),
           workflow_raised |-> FALSE]}
    ELSE {[out |-> Return("mcp_score"), workflow_raised |-> FALSE],
          [out |-> Return("fallback_score"), workflow_raised |-> FALSE]}

\* The if/elif chain of _execute_task and of handle_message_send.
RunSkill(skill_id, input, wf) ==
    IF skill_id = "optimize-resume" THEN execute_optimize_resume_task(input, wf)
    ELSE IF skill_id = "extract-job-description" THEN execute_extract_job_task(input, wf)
    ELSE IF skill_id = "calculate-ats-score" THEN execute_calculate_ats_task(input)
    ELSE {[out |-> Raise("ValueError", "Unknown skill", <<skill_id>>), workflow_raised |-> FALSE]}

\* The skill awaits an external collaborator (run_workflow, mcp_client.call_tool)
\* and so gives the event loop back; the other paths run to their end at once.
Suspends(skill_id, input, wf) ==
    \/ skill_id = "optimize-resume" /\ input = "complete" /\ wf
    \/ skill_id = "calculate-ats-score" /\ input = "complete"

\* Variant: no arm for ValueError, so it is answered like any other exception.
handle_request_no_value_error(params, out) ==
    IF out.kind = "return"
    THEN [result |-> out.value]
    ELSE [error |-> [code |-> INTERNAL_ERROR, message |-> [text |-> "Internal error", args |-> <<out.msg>>],
                     data |-> [kind |-> "traceback", value |-> out.exc]]]

(***************************************************************************)
(* handle_request: the response built from what the method handler did     *)
(* (the method is one of the registry; the handler returned or raised).    *)
(***************************************************************************)
handle_request(params, out) ==
    IF out.kind = "return"
    THEN [result |-> out.value]
    ELSE IF out.exc = "ValueError"
    THEN [error |-> [code |-> INVALID_PARAMS,
                    message |-> [text |-> out.msg, args |-> out.args],
                    data |-> [kind |-> "params_received", value |-> params]]]
    ELSE [error |-> [code |-> INTERNAL_ERROR,
                    message |-> [text |-> "Internal error", args |-> <<out.msg>>],
                    data |-> [kind |-> "traceback", value |-> out.exc]]]

\* A JSONRPCResponse carries a result or an error; the other field is None
\* and is left out of the record.
\* The method registry of the handler.
methods ==
    {"message/send", "tasks/create", "tasks/get", "tasks/list", "tasks/cancel",
     "skills/list", "agent/info"}

\* handle_request from the request on: the method is looked up first, the
\* handler runs only for a registered method, and the response carries the
\* request's id.  out is what the handler does when it is invoked.
route_request(request, out) ==
    IF request.method \notin methods
    THEN [invoked |-> FALSE,
          response |-> [id |-> request.id,
                        error |-> [code |-> METHOD_NOT_FOUND,
                                   message |-> [text |-> "Method not found",
                                                args |-> <<request.method>>],
                                   data |-> [kind |-> "available_methods",
                                             value |-> methods]]]]
    ELSE [invoked |-> TRUE,
          response |-> [id |-> request.id] @@ handle_request(request.params, out)]

IsError(resp) == "error" \in DOMAIN resp
IsResult(resp) == "result" \in DOMAIN resp

(***************************************************************************)
(* The task table operations.  Each gives the handler's outcome and the    *)
(* table it leaves.                                                        *)
(***************************************************************************)
A2ATask(id, skill_id, input, t) ==
    [id |-> id, status |-> PENDING, skill_id |-> skill_id, input |-> input,
     output |-> None, error |-> None,
     created_at |-> t, updated_at |-> t, completed_at |-> NoTime]

\* Variant: the execution is begun inside the handler, before the response.
handle_task_create_started(tbl, params, t) ==
    IF params.skill_id = None \/ params.skill_id \notin SkillIds
    THEN [out |-> Raise("ValueError", "Unknown skill. Valid skills:",
                        <<params.skill_id, valid_skills>>),
          tasks |-> tbl, spawned |-> FALSE]
    ELSE LET task == [A2ATask(Len(tbl) + 1, params.skill_id, params.input, t)
                        EXCEPT !.status = IN_PROGRESS]
         IN  [out |-> Return([task |-> task]),
              tasks |-> Append(tbl, task), spawned |-> TRUE]

\* Variant: the task is stored before its skill_id is looked up.
handle_task_create_store_first(tbl, params, t) ==
    IF params.skill_id = None
    THEN [out |-> Raise("ValueError", "Missing 'skill_id' parameter", <<>>),
          tasks |-> tbl, spawned |-> FALSE]
    ELSE LET task == A2ATask(Len(tbl) + 1, params.skill_id, params.input, t)
         IN  IF params.skill_id \notin SkillIds
             THEN [out |-> Raise("ValueError", "Unknown skill. Valid skills:",
                                 <<params.skill_id, valid_skills>>),
                   tasks |-> Append(tbl, task), spawned |-> FALSE]
             ELSE [out |-> Return([task |-> task]),
                   tasks |-> Append(tbl, task), spawned |-> TRUE]

handle_task_create(tbl, params, t) ==
    IF params.skill_id = None
    THEN [out |-> Raise("ValueError", "Missing 'skill_id' parameter", <<>>),
          tasks |-> tbl, spawned |-> FALSE]
    ELSE IF params.skill_id \notin SkillIds
    THEN [out |-> Raise("ValueError", "Unknown skill. Valid skills:",
                        <<params.skill_id, valid_skills>>),
          tasks |-> tbl, spawned |-> FALSE]
    ELSE LET task == A2ATask(Len(tbl) + 1, params.skill_id, params.input, t)
         IN  [out |-> Return([task |-> task]),
              tasks |-> Append(tbl, task), spawned |-> TRUE]

handle_task_get(tbl, params) ==
    IF params.task_id = NoTaskId
    THEN Raise("ValueError", "Missing 'task_id' parameter", <<>>)
    ELSE IF params.task_id \notin 1..Len(tbl)
    THEN Raise("ValueError", "Task not found", <<params.task_id>>)
    ELSE Return([task |-> tbl[params.task_id]])

\* Variant: no check of the task's status before cancelling.
handle_task_cancel_unchecked(tbl, params, t) ==
    IF params.task_id = NoTaskId \/ params.task_id \notin 1..Len(tbl)
    THEN [out |-> Raise("ValueError", "Task not found", <<params.task_id>>), tasks |-> tbl]
    ELSE LET cancelled == [tbl[params.task_id] EXCEPT !.status = CANCELLED, !.updated_at = t]
         IN  [out |-> Return([task |-> cancelled]),
              tasks |-> [tbl EXCEPT ![params.task_id] = cancelled]]

\* Variant: cancelling rebuilds the task record, stamping it anew.
handle_task_cancel_recreate(tbl, params, t) ==
    IF params.task_id = NoTaskId
    THEN [out |-> Raise("ValueError", "Missing 'task_id' parameter", <<>>), tasks |-> tbl]
    ELSE IF params.task_id \notin 1..Len(tbl)
    THEN [out |-> Raise("ValueError", "Task not found", <<params.task_id>>), tasks |-> tbl]
    ELSE LET task == tbl[params.task_id]
         IN  IF task.status \in {COMPLETED, FAILED}
             THEN [out |-> Raise("ValueError", "Cannot cancel task", <<task.status>>),
                   tasks |-> tbl]
             ELSE LET cancelled == [A2ATask(task.id, task.skill_id, task.input, t)
                                       EXCEPT !.status = CANCELLED]
                  IN  [out |-> Return([task |-> cancelled]),
                       tasks |-> [tbl EXCEPT ![params.task_id] = cancelled]]

handle_task_cancel(tbl, params, t) ==
    IF params.task_id = NoTaskId
    THEN [out |-> Raise("ValueError", "Missing 'task_id' parameter", <<>>), tasks |-> tbl]
    ELSE IF params.task_id \notin 1..Len(tbl)
    THEN [out |-> Raise("ValueError", "Task not found", <<params.task_id>>), tasks |-> tbl]
    ELSE LET task == tbl[params.task_id]
         IN  IF task.status \in {COMPLETED, FAILED}
             THEN [out |-> Raise("ValueError", "Cannot cancel task", <<task.status>>),
                   tasks |-> tbl]
             ELSE LET cancelled == [task EXCEPT !.status = CANCELLED, !.updated_at = t]
                  IN  [out |-> Return([task |-> cancelled]),
                       tasks |-> [tbl EXCEPT ![params.task_id] = cancelled]]

(***************************************************************************)
(* _execute_task, in its two stretches: up to the await of the skill, and  *)
(* from the skill's end on.                                                *)
(***************************************************************************)
execute_task_start(task, t) ==
    [task EXCEPT !.status = IN_PROGRESS, !.updated_at = t]

\* Variant: a raising skill is swallowed without marking the task failed.
execute_task_finish_swallow(task, out, t) ==
    IF out.kind = "return"
    THEN [task EXCEPT !.status = COMPLETED, !.output = out.value,
                      !.completed_at = t, !.updated_at = t]
    ELSE [task EXCEPT !.updated_at = t]

\* Variant: completed_at is not stamped on success.
execute_task_finish_no_stamp(task, out, t) ==
    IF out.kind = "return"
    THEN [task EXCEPT !.status = COMPLETED, !.output = out.value, !.updated_at = t]
    ELSE [task EXCEPT !.status = FAILED, !.error = out.msg, !.updated_at = t]

execute_task_finish(task, out, t) ==
    IF out.kind = "return"
    THEN [task EXCEPT !.status = COMPLETED, !.output = out.value,
                      !.completed_at = t, !.updated_at = t]
    ELSE [task EXCEPT !.status = FAILED, !.error = out.msg, !.updated_at = t]

(***************************************************************************)
(* handle_message_send: the skill runs inline, on the calling request.     *)
(* Each outcome says whether a skill was executed on the way.              *)
(***************************************************************************)
handle_message_send(params, wf) ==
    IF params.message = None
    THEN {[out |-> Raise("ValueError", "Missing 'message' parameter", <<>>),
           ran |-> FALSE, workflow_raised |-> FALSE]}
    ELSE IF params.message = "invalid"
    THEN {[out |-> Raise("ValueError", "validation error for A2AMessage", <<>>),
           ran |-> FALSE, workflow_raised |-> FALSE]}
    ELSE LET skill_id == IF params.skill_id = None THEN "optimize-resume"
                         ELSE params.skill_id
         IN  IF skill_id \notin SkillIds
             THEN {[out |-> Raise("ValueError", "Unknown skill. Valid skills:",
                                  <<skill_id, valid_skills>>),
                    ran |-> FALSE, workflow_raised |-> FALSE]}
             ELSE {[out |-> IF o.out.kind = "return"
                            THEN Return([message |-> [role |-> "agent",
                                                      author |-> "resume-optimizer-agent",
                                                      text |-> o.out.value],
                                         skill_id |-> skill_id,
                                         result |-> o.out.value])
                            ELSE o.out,
                    ran |-> TRUE, workflow_raised |-> o.workflow_raised]
                   : o \in RunSkill(skill_id, params.input, wf)}

(***************************************************************************)
(* handle_task_list: filter, stable sort by created_at (newest first),     *)
(* slice.  list.sort(reverse=True) keeps equal keys in their first order.  *)
(***************************************************************************)
DefaultLimit == 100

RECURSIVE InsertNewestFirst(_, _)
InsertNewestFirst(sorted, task) ==
    IF sorted = <<>> THEN <<task>>
    ELSE IF Head(sorted).created_at >= task.created_at
    THEN <<Head(sorted)>> \o InsertNewestFirst(Tail(sorted), task)
    ELSE <<task>> \o sorted

RECURSIVE SortNewestFirst(_)
SortNewestFirst(seq) ==
    IF seq = <<>> THEN <<>>
    ELSE InsertNewestFirst(SortNewestFirst(SubSeq(seq, 1, Len(seq) - 1)), seq[Len(seq)])

Min(a, b) == IF a < b THEN a ELSE b

\* Variant: total is taken after the slice, not before.
handle_task_list_total_of_page(tbl, params) ==
    LET matches(t) == t.status = params.status
        filtered == IF params.status # None THEN SelectSeq(tbl, matches) ELSE tbl
        sorted == SortNewestFirst(filtered)
        page == SubSeq(sorted, params.offset + 1,
                       Min(params.offset + params.limit, Len(sorted)))
    IN  Return([tasks |-> page, total |-> Len(page),
                offset |-> params.offset, limit |-> params.limit])

handle_task_list(tbl, params) ==
    LET matches(t) == t.status = params.status
        filtered == IF params.status # None THEN SelectSeq(tbl, matches) ELSE tbl
        sorted == SortNewestFirst(filtered)
        total == Len(sorted)
    IN  Return([tasks |-> SubSeq(sorted, params.offset + 1,
                                 Min(params.offset + params.limit, total)),
                total |-> total,
                offset |-> params.offset,
                limit |-> params.limit])

(***************************************************************************)
(* The MCP client (MCPClientManager) and its endpoints.  server_configs    *)
(* names the endpoints that can be connected; the second name stands for   *)
(* any further entry of that dictionary.                                   *)
(***************************************************************************)
Servers == {"resume-tools", "aux-tools"}
UnknownServer == "no-such-server"
ServerNames == Servers \cup {UnknownServer}
NoConn == 0
Callers == {"a", "b"}
RequestOps == {"list_tools", "call_tool", "get_resource", "get_prompt"}

\* The tool list an endpoint answers tools/list with.
tools(name) == IF name = "resume-tools" THEN "tools of resume-tools"
               ELSE "tools of aux-tools"

\* A transport with the session built on it, as connect_server creates them.
NewConn(name) ==
    [server |-> name, transport |-> "open", session |-> "new",
     initialized |-> FALSE, teardown |-> <<>>]

\* A caller that has made no call yet.  hs and reqs count the initialize
\* handshakes and the requests the call has sent; ready, prev and was record
\* what the call found when it started; tried, the endpoints it tore down.
NoCall ==
    [op |-> None, server |-> None, pc |-> "idle", conn |-> NoConn, rest |-> <<>>,
     hs |-> 0, reqs |-> 0, result |-> None, error |-> None,
     ready |-> FALSE, prev |-> None, was |-> {}, tried |-> {}]

ClientInit ==
    /\ sessions = [n \in Servers |-> NoConn]
    /\ contexts = [n \in Servers |-> NoConn]
    /\ tools_cache = [n \in Servers |-> None]
    /\ conns = <<>>
    /\ calls = [c \in Callers |-> NoCall]
    /\ listed = [n \in Servers |-> None]

\* No run_workflow call yet.
NoRun == [pc |-> "idle"]

(***************************************************************************)
(* The handler after construction (A2AJSONRPCHandler.__init__).            *)
(***************************************************************************)
Init ==
    /\ tasks = <<>>
    /\ exec = <<>>
    /\ workflow = FALSE
    /\ now = 0
    /\ last = [op |-> "init"]
    /\ ClientInit
    /\ run = NoRun

\* set_workflow, called by the server's startup hook.
set_workflow ==
    /\ ~workflow
    /\ workflow' = TRUE
    /\ last' = [op |-> "set_workflow"]
    /\ UNCHANGED <<tasks, exec, now, clientVars, run>>

\* Time passes: a later datetime.utcnow() reads a later clock.
Tick ==
    /\ now < MaxClock
    /\ now' = now + 1
    /\ last' = [op |-> "tick"]
    /\ UNCHANGED <<tasks, exec, workflow, clientVars, run>>

\* A tasks/create request.  last.path lists the statuses the task is given
\* during the stretch, in order.
TaskCreate ==
    \E skill_id \in SkillParams, input \in Inputs :
        LET params == [skill_id |-> skill_id, input |-> input]
            h == handle_task_create(tasks, params, now)
        IN  /\ Len(tasks) < MaxTasks
            /\ tasks' = h.tasks
            /\ exec' = IF h.spawned THEN Append(exec, "scheduled") ELSE exec
            /\ last' = [op |-> "tasks/create", params |-> params,
                        response |-> handle_request(params, h.out),
                        path |-> IF h.spawned THEN <<h.tasks[Len(h.tasks)].status>> ELSE <<>>]
            /\ UNCHANGED <<workflow, now, clientVars, run>>

TaskGet ==
    \E task_id \in (1..MaxTasks) \cup {NoTaskId} :
        LET params == [task_id |-> task_id]
        IN  /\ last' = [op |-> "tasks/get", params |-> params,
                        response |-> handle_request(params, handle_task_get(tasks, params))]
            /\ UNCHANGED <<tasks, exec, workflow, now, clientVars, run>>

\* A tasks/cancel request.  The id is the caller's: nothing in the handler
\* keeps it from naming a task whose execution has not started yet.
TaskCancel ==
    \E task_id \in (1..MaxTasks) \cup {NoTaskId} :
        LET params == [task_id |-> task_id]
            h == handle_task_cancel(tasks, params, now)
        IN  /\ tasks' = h.tasks
            /\ last' = [op |-> "tasks/cancel", params |-> params,
                        response |-> handle_request(params, h.out),
                        before |-> IF task_id \in TaskIds THEN tasks[task_id].status ELSE None,
                        path |-> IF task_id \in TaskIds
                                 THEN <<tasks[task_id].status, h.tasks[task_id].status>>
                                 ELSE <<>>]
            /\ UNCHANGED <<exec, workflow, now, clientVars, run>>

\* The first stretch of the spawned _execute_task; when the skill does not
\* suspend, the coroutine runs through to its end in the same stretch.
ExecStart(id) ==
    /\ id \in TaskIds
    /\ exec[id] = "scheduled"
    /\ LET started == execute_task_start(tasks[id], now)
       IN  IF Suspends(started.skill_id, started.input, workflow)
           THEN /\ tasks' = [tasks EXCEPT ![id] = started]
                /\ exec' = [exec EXCEPT ![id] = "running"]
                /\ last' = [op |-> "_execute_task", task_id |-> id,
                            path |-> <<tasks[id].status, started.status>>,
                            workflow_raised |-> FALSE]
           ELSE \E o \in RunSkill(started.skill_id, started.input, workflow) :
                LET finished == execute_task_finish(started, o.out, now)
                IN  /\ tasks' = [tasks EXCEPT ![id] = finished]
                    /\ exec' = [exec EXCEPT ![id] = "done"]
                    /\ last' = [op |-> "_execute_task", task_id |-> id,
                                path |-> <<tasks[id].status, started.status, finished.status>>,
                                workflow_raised |-> o.workflow_raised]
    /\ UNCHANGED <<workflow, now, clientVars, run>>

\* The awaited skill has ended: the rest of _execute_task.
ExecFinish(id) ==
    /\ id \in TaskIds
    /\ exec[id] = "running"
    /\ \E o \in RunSkill(tasks[id].skill_id, tasks[id].input, workflow) :
        LET finished == execute_task_finish(tasks[id], o.out, now)
        IN  /\ tasks' = [tasks EXCEPT ![id] = finished]
            /\ exec' = [exec EXCEPT ![id] = "done"]
            /\ last' = [op |-> "_execute_task", task_id |-> id,
                        path |-> <<tasks[id].status, finished.status>>,
                        workflow_raised |-> o.workflow_raised]
    /\ UNCHANGED <<workflow, now, clientVars, run>>

MessageSend ==
    \E message \in MessageParams, skill_id \in SkillParams, input \in Inputs :
        LET params == [message |-> message, skill_id |-> skill_id, input |-> input]
        IN  \E h \in handle_message_send(params, workflow) :
            /\ last' = [op |-> "message/send", params |-> params,
                        response |-> handle_request(params, h.out),
                        ran |-> h.ran, workflow_raised |-> h.workflow_raised]
            /\ UNCHANGED <<tasks, exec, workflow, now, clientVars, run>>

TaskList ==
    \E status \in TaskStatus \cup {None}, limit \in (0..MaxLimit) \cup {DefaultLimit},
       offset \in 0..MaxLimit :
        LET params == [status |-> status, limit |-> limit, offset |-> offset]
        IN  /\ last' = [op |-> "tasks/list", params |-> params,
                        response |-> handle_request(params, handle_task_list(tasks, params))]
            /\ UNCHANGED <<tasks, exec, workflow, now, clientVars, run>>

(***************************************************************************)
(* The task lifecycle: requests that create and cancel tasks, and the      *)
(* spawned executions, in every interleaving the event loop allows.        *)
(***************************************************************************)
Next ==
    \/ set_workflow
    \/ Tick
    \/ TaskCreate
    \/ TaskGet
    \/ TaskCancel
    \/ \E id \in 1..MaxTasks : ExecStart(id)
    \/ \E id \in 1..MaxTasks : ExecFinish(id)

Spec == Init /\ [][Next]_vars

\* The event loop runs every ready coroutine, and every awaited skill ends.
FairSpec ==
    /\ Spec
    /\ \A id \in 1..MaxTasks : WF_vars(ExecStart(id)) /\ WF_vars(ExecFinish(id))

\* The lifecycle together with message/send requests.
FullNext ==
    \/ Next
    \/ MessageSend

FullSpec == Init /\ [][FullNext]_vars

(***************************************************************************)
(* The requests that only read the handler's state (tasks/list, tasks/get, *)
(* message/send), each served once in a state the lifecycle leaves: a      *)
(* table of up to MaxListed tasks, created at non-decreasing clock         *)
(* readings, each at some point of its life.                               *)
(***************************************************************************)
ListedTask(id, status, t) ==
    LET created == A2ATask(id, "calculate-ats-score",
                           IF status = FAILED THEN "missing" ELSE "complete", t)
        started == execute_task_start(created, t)
    IN  CASE status = PENDING -> created
          [] status = IN_PROGRESS -> started
          [] status = COMPLETED -> execute_task_finish(started, Return("mcp_score"), t)
          [] status = FAILED ->
                execute_task_finish(started, Raise("ValueError", "Both 'resume_text' and 'job_description' are required", <<>>), t)
          [] status = CANCELLED ->
                handle_task_cancel(<<created>>, [task_id |-> 1], t).tasks[1]

ListedExec(status) ==
    CASE status \in {PENDING, CANCELLED} -> "scheduled"
      [] status = IN_PROGRESS -> "running"
      [] status \in {COMPLETED, FAILED} -> "done"

QueryInit ==
    \E n \in 0..MaxListed :
        \E status \in [1..n -> TaskStatus], created \in [1..n -> 0..MaxClock] :
            /\ \A i \in 1..n, j \in 1..n : i < j => created[i] <= created[j]
            /\ tasks = [i \in 1..n |-> [ListedTask(i, status[i], created[i]) EXCEPT !.id = i]]
            /\ exec = [i \in 1..n |-> ListedExec(status[i])]
            /\ workflow \in BOOLEAN
            /\ now = MaxClock
            /\ last = [op |-> "init"]
            /\ ClientInit
            /\ run = NoRun

\* One request per drawn state: what a request answers depends on the state
\* it is served in, not on the requests answered before it.
QueryNext ==
    /\ last.op = "init"
    /\ \/ TaskList
       \/ TaskGet
       \/ MessageSend
       \/ TaskCreate

QuerySpec == QueryInit /\ [][QueryNext]_vars

\* skills/list and agent/info answer from the agent card.
handle_skills_list ==
    Return([skills |-> valid_skills, total |-> Len(valid_skills)])

handle_agent_info ==
    Return([agent |-> [skills |-> valid_skills]])

SkillsList ==
    /\ last' = [op |-> "skills/list", params |-> <<>>,
                response |-> handle_request(<<>>, handle_skills_list)]
    /\ UNCHANGED <<tasks, exec, workflow, now, clientVars, run>>

AgentInfo ==
    /\ last' = [op |-> "agent/info", params |-> <<>>,
                response |-> handle_request(<<>>, handle_agent_info)]
    /\ UNCHANGED <<tasks, exec, workflow, now, clientVars, run>>

\* Any one operation of the handler, a request or a step of _execute_task,
\* in a state the lifecycle leaves.
FrameNext ==
    /\ last.op = "init"
    /\ \/ TaskCreate
       \/ TaskGet
       \/ TaskCancel
       \/ TaskList
       \/ MessageSend
       \/ SkillsList
       \/ AgentInfo
       \/ \E id \in 1..MaxListed : ExecStart(id)
       \/ \E id \in 1..MaxListed : ExecFinish(id)

FrameSpec == QueryInit /\ [][FrameNext]_vars

(***************************************************************************)
(* The resource-style routes of server.py over the same handler: what the  *)
(* route answers is an HTTP status with a body.                            *)
(***************************************************************************)
\* GET /v1/tasks/{task_id}
get_task(tbl, task_id) ==
    LET params == [task_id |-> task_id]
        response == handle_request(params, handle_task_get(tbl, params))
    IN  IF IsError(response)
        THEN [status |-> IF response.error.code = TASK_NOT_FOUND THEN 404 ELSE 500,
              body |-> response.error.message, response |-> response]
        ELSE [status |-> 200, body |-> response.result, response |-> response]

\* POST /v1/tasks: the HTTPException(400) is raised inside the try and its
\* `except Exception` answers it, like a body that is no JSON, with 500.
create_task(tbl, json_ok, params, t) ==
    IF ~json_ok
    THEN [status |-> 500, body |-> "JSONDecodeError", response |-> [none |-> None],
          tasks |-> tbl, spawned |-> FALSE]
    ELSE LET h == handle_task_create(tbl, params, t)
             response == handle_request(params, h.out)
         IN  IF IsError(response)
             THEN [status |-> 500, body |-> response.error.message, response |-> response,
                   tasks |-> h.tasks, spawned |-> h.spawned]
             ELSE [status |-> 200, body |-> response.result, response |-> response,
                   tasks |-> h.tasks, spawned |-> h.spawned]

GetTask ==
    \E task_id \in 1..(MaxListed + 1) :
        /\ last' = [op |-> "GET /v1/tasks/{task_id}", task_id |-> task_id,
                    http |-> get_task(tasks, task_id)]
        /\ UNCHANGED <<tasks, exec, workflow, now, clientVars, run>>

CreateTask ==
    \E json_ok \in BOOLEAN, skill_id \in SkillParams, input \in Inputs :
        LET params == [skill_id |-> skill_id, input |-> input]
            http == create_task(tasks, json_ok, params, now)
        IN  /\ Len(tasks) < MaxListed
            /\ tasks' = http.tasks
            /\ exec' = IF http.spawned THEN Append(exec, "scheduled") ELSE exec
            /\ last' = [op |-> "POST /v1/tasks", json_ok |-> json_ok, params |-> params,
                        http |-> [status |-> http.status, body |-> http.body,
                                  response |-> http.response]]
            /\ UNCHANGED <<workflow, now, clientVars, run>>

RestNext ==
    /\ last.op = "init"
    /\ \/ GetTask
       \/ CreateTask

RestSpec == QueryInit /\ [][RestNext]_vars

(***************************************************************************)
(* The routing of handle_request on its own: any request, registered       *)
(* method or not, and any behaviour of the handler that is invoked.        *)
(***************************************************************************)
UnknownMethod == "tasks/delete"

RequestIds == 0..MaxRequestId

\* What a method handler can do: return, raise ValueError, or raise another
\* exception (a TypeError on a malformed message, a KeyError, ...).
HandlerOutcomes ==
    {Return("handled"),
     Raise("ValueError", "Missing parameter", <<>>),
     Raise("TypeError", "argument after ** must be a mapping", <<>>),
     Raise("KeyError", "id", <<>>)}

HandleRequest ==
    \E id \in RequestIds, method \in methods \cup {UnknownMethod},
       out \in HandlerOutcomes :
        LET request == [id |-> id, method |-> method, params |-> [given |-> "params"]]
            r == route_request(request, out)
        IN  /\ last' = [op |-> "handle_request", request |-> request,
                        \* an unregistered method has no handler to do anything
                        out |-> IF r.invoked THEN out ELSE Return(None),
                        invoked |-> r.invoked, response |-> r.response]
            /\ UNCHANGED <<tasks, exec, workflow, now, clientVars, run>>

RouteNext == HandleRequest

RouteSpec == Init /\ [][RouteNext]_vars

(***************************************************************************)
(* The MCP client.  A call runs from one await to the next without         *)
(* interruption; what the awaited transport, session or endpoint does      *)
(* (answer or raise) is not the client's to choose.                        *)
(***************************************************************************)
\* is_connected, and the test disconnect_server starts with.
is_connected(sess, name) == name \in Servers /\ sess[name] # NoConn

\* Variant: list_tools never finds a cached tool list.
cached_never(cache, name) == FALSE

\* list_tools: the cache is looked up before anything else.
cached(cache, name) == name \in Servers /\ cache[name] # None

\* Variant: connect_server never finds a session to reuse.
reuse_session_never(sess, name) == FALSE

\* connect_server: an endpoint that has a session is not connected again.
reuse_session(sess, name) == name \in Servers /\ sess[name] # NoConn

\* Variant: the finally arm forgets the endpoint's session but keeps its
\* cached tool list.
disconnect_cleanup_keep_cache(sess, cache, name) ==
    IF sess[name] = NoConn
    THEN [key_error |-> TRUE, sessions |-> sess, tools_cache |-> cache]
    ELSE [key_error |-> FALSE,
          sessions |-> [sess EXCEPT ![name] = NoConn],
          tools_cache |-> cache]

\* disconnect_server's finally arm: del self.sessions[name] (a KeyError when
\* the entry is gone already), then the eviction of the cached tool list.
disconnect_cleanup(sess, cache, name) ==
    IF sess[name] = NoConn
    THEN [key_error |-> TRUE, sessions |-> sess, tools_cache |-> cache]
    ELSE [key_error |-> FALSE,
          sessions |-> [sess EXCEPT ![name] = NoConn],
          tools_cache |-> [cache EXCEPT ![name] = None]]

\* Variant: an exception of the teardown leaves disconnect_server.
teardown_error_propagates(raised) == IF raised THEN "Exception" ELSE None

\* disconnect_server's except arm: an exception of the teardown is logged
\* and goes no further.
teardown_error(raised) == None

\* The call awaiting the teardown of endpoint name's session; rest are the
\* endpoints disconnect_all has still to visit.
begin_disconnect(call, name, rest, sess, ctxs) ==
    [call EXCEPT !.server = name, !.rest = rest,
                 !.conn = IF ctxs[name] # NoConn THEN ctxs[name] ELSE sess[name],
                 !.pc = IF ctxs[name] # NoConn THEN "session_exit"
                        ELSE "session_exit_only",
                 !.tried = @ \cup {name}]

\* disconnect_server for each of names in turn, up to the first await: an
\* endpoint without a session is passed over.
RECURSIVE next_disconnect(_, _, _, _)
next_disconnect(call, names, sess, ctxs) ==
    IF names = <<>>
    THEN [call EXCEPT !.pc = "done", !.rest = <<>>]
    ELSE IF is_connected(sess, Head(names))
    THEN begin_disconnect(call, Head(names), Tail(names), sess, ctxs)
    ELSE next_disconnect(call, Tail(names), sess, ctxs)

\* The orders in which a dictionary can hold the keys S.
Orderings(S) ==
    {o \in [1..Cardinality(S) -> S] : \A i, j \in 1..Cardinality(S) : i # j => o[i] # o[j]}

\* list_tools, call_tool, get_resource or get_prompt up to its first await.
StartRequest(c, name) ==
    \E op \in RequestOps :
        LET call == [NoCall EXCEPT !.op = op, !.server = name,
                                   !.ready = is_connected(sessions, name),
                                   !.prev = IF name \in Servers THEN listed[name] ELSE None]
        IN  /\ calls[c].pc \in {"idle", "done"}
            /\ IF op = "list_tools" /\ cached(tools_cache, name)
               THEN /\ calls' = [calls EXCEPT ![c] = [call EXCEPT !.pc = "done",
                                                          !.result = tools_cache[name]]]
                    /\ listed' = [listed EXCEPT ![name] = tools_cache[name]]
               ELSE IF reuse_session(sessions, name)
               THEN /\ calls' = [calls EXCEPT ![c] = [call EXCEPT !.pc = "response",
                                                          !.conn = sessions[name],
                                                          !.reqs = 1]]
                    /\ UNCHANGED listed
               ELSE IF name \notin Servers
               THEN /\ calls' = [calls EXCEPT ![c] = [call EXCEPT !.pc = "done",
                                                          !.error = "ValueError"]]
                    /\ UNCHANGED listed
               ELSE /\ Len(conns) < MaxConns
                    /\ calls' = [calls EXCEPT ![c] = [call EXCEPT !.pc = "transport"]]
                    /\ UNCHANGED listed
            /\ UNCHANGED <<sessions, contexts, tools_cache, conns, handlerVars, run>>

\* connect_server resumes from stdio_context.__aenter__().
ConnectTransport(c) ==
    /\ calls[c].pc = "transport"
    /\ \E ok \in BOOLEAN :
        IF ok
        THEN /\ conns' = Append(conns, NewConn(calls[c].server))
             /\ calls' = [calls EXCEPT ![c].conn = Len(conns) + 1, ![c].pc = "session"]
        ELSE /\ calls' = [calls EXCEPT ![c].pc = "done", ![c].error = "ConnectionError"]
             /\ UNCHANGED conns
    /\ UNCHANGED <<sessions, contexts, tools_cache, listed, handlerVars, run>>

\* connect_server resumes from session.__aenter__() and sends initialize.
ConnectSession(c) ==
    /\ calls[c].pc = "session"
    /\ \E ok \in BOOLEAN :
        IF ok
        THEN /\ conns' = [conns EXCEPT ![calls[c].conn].session = "open"]
             /\ calls' = [calls EXCEPT ![c].pc = "initialize", ![c].hs = @ + 1]
        ELSE /\ conns' = [conns EXCEPT ![calls[c].conn].session = "failed"]
             /\ calls' = [calls EXCEPT ![c].pc = "done", ![c].error = "ConnectionError"]
    /\ UNCHANGED <<sessions, contexts, tools_cache, listed, handlerVars, run>>

\* connect_server resumes from session.initialize(), stores the session and
\* returns it; the caller sends its request.
ConnectInitialize(c) ==
    /\ calls[c].pc = "initialize"
    /\ \E ok \in BOOLEAN :
        IF ok
        THEN /\ conns' = [conns EXCEPT ![calls[c].conn].initialized = TRUE]
             /\ sessions' = [sessions EXCEPT ![calls[c].server] = calls[c].conn]
             /\ contexts' = [contexts EXCEPT ![calls[c].server] = calls[c].conn]
             /\ calls' = [calls EXCEPT ![c].pc = "response", ![c].reqs = @ + 1]
        ELSE /\ calls' = [calls EXCEPT ![c].pc = "done", ![c].error = "ConnectionError"]
             /\ UNCHANGED <<conns, sessions, contexts>>
    /\ UNCHANGED <<tools_cache, listed, handlerVars, run>>

\* What a request that raised leaves the call with: list_tools re-raises
\* the exception, call_tool raises RuntimeError, the others ValueError.
request_error(op) ==
    IF op = "list_tools" THEN "Exception"
    ELSE IF op = "call_tool" THEN "RuntimeError"
    ELSE "ValueError"

\* The endpoint answers the request, or the request raises.
Respond(c) ==
    /\ calls[c].pc = "response"
    /\ \E ok \in BOOLEAN :
        LET name == calls[c].server
        IN  IF ok /\ calls[c].op = "list_tools"
            THEN /\ tools_cache' = [tools_cache EXCEPT ![name] = tools(name)]
                 /\ listed' = [listed EXCEPT ![name] = tools(name)]
                 /\ calls' = [calls EXCEPT ![c].pc = "done", ![c].result = tools(name)]
            ELSE IF ok
            THEN /\ calls' = [calls EXCEPT ![c].pc = "done", ![c].result = "content"]
                 /\ UNCHANGED <<tools_cache, listed>>
            ELSE /\ calls' = [calls EXCEPT ![c].pc = "done",
                                           ![c].error = request_error(calls[c].op)]
                 /\ UNCHANGED <<tools_cache, listed>>
    /\ UNCHANGED <<sessions, contexts, conns, handlerVars, run>>

\* disconnect_server(name) up to its first await.
StartDisconnect(c, name) ==
        LET call == [NoCall EXCEPT !.op = "disconnect_server", !.server = name,
                                   !.ready = is_connected(sessions, name)]
        IN  /\ calls[c].pc \in {"idle", "done"}
            /\ calls' = [calls EXCEPT ![c] = next_disconnect(call, <<name>>, sessions, contexts)]
            /\ listed' = [n \in Servers |-> IF n = name THEN None ELSE listed[n]]
            /\ UNCHANGED <<sessions, contexts, tools_cache, conns, handlerVars, run>>

\* disconnect_all up to its first await: the keys of self.sessions are
\* copied, then disconnect_server is called for each.
StartDisconnectAll(c) ==
    LET was == {n \in Servers : is_connected(sessions, n)}
    IN  \E names \in Orderings(was) :
            LET call == [NoCall EXCEPT !.op = "disconnect_all", !.was = was]
            IN  /\ calls[c].pc \in {"idle", "done"}
                /\ calls' = [calls EXCEPT ![c] = next_disconnect(call, names, sessions, contexts)]
                /\ listed' = [n \in Servers |-> IF n \in was THEN None ELSE listed[n]]
                /\ UNCHANGED <<sessions, contexts, tools_cache, conns, handlerVars, run>>

\* What is left of disconnect_server once the teardown is over or has
\* raised: the finally arm, then the return to the caller, which for
\* disconnect_all goes on with the next endpoint.
FinishDisconnect(c, raised, ctxs) ==
    LET name == calls[c].server
        cleanup == disconnect_cleanup(sessions, tools_cache, name)
        error == IF cleanup.key_error THEN "KeyError" ELSE teardown_error(raised)
    IN  /\ sessions' = cleanup.sessions
        /\ tools_cache' = cleanup.tools_cache
        /\ contexts' = ctxs
        /\ listed' = [listed EXCEPT ![name] = None]
        /\ calls' = [calls EXCEPT ![c] =
                        IF error # None
                        THEN [calls[c] EXCEPT !.pc = "done", !.error = error]
                        ELSE next_disconnect(calls[c], calls[c].rest,
                                             cleanup.sessions, ctxs)]

\* disconnect_server resumes from session.__aexit__().
SessionExit(c) ==
    /\ calls[c].pc \in {"session_exit", "session_exit_only"}
    /\ \E ok \in BOOLEAN :
        /\ conns' = [conns EXCEPT ![calls[c].conn].session = IF ok THEN "closed" ELSE "failed",
                                  ![calls[c].conn].teardown = Append(@, "session")]
        /\ IF ok /\ calls[c].pc = "session_exit"
           THEN /\ calls' = [calls EXCEPT ![c].pc = "transport_exit"]
                /\ UNCHANGED <<sessions, contexts, tools_cache, listed>>
           ELSE FinishDisconnect(c, ~ok, contexts)
    /\ UNCHANGED <<handlerVars, run>>

\* disconnect_server resumes from stdio_context.__aexit__().
TransportExit(c) ==
    /\ calls[c].pc = "transport_exit"
    /\ \E ok \in BOOLEAN :
        /\ conns' = [conns EXCEPT ![calls[c].conn].transport = IF ok THEN "closed" ELSE "open",
                                  ![calls[c].conn].teardown = Append(@, "transport")]
        /\ FinishDisconnect(c, ~ok,
                            IF ok THEN [contexts EXCEPT ![calls[c].server] = NoConn]
                            ELSE contexts)
    /\ UNCHANGED <<handlerVars, run>>

\* One caller: every call is made after the one before it has returned.
ClientNext ==
    \/ \E name \in ServerNames : StartRequest("a", name)
    \/ ConnectTransport("a")
    \/ ConnectSession("a")
    \/ ConnectInitialize("a")
    \/ Respond("a")
    \/ \E name \in ServerNames : StartDisconnect("a", name)
    \/ StartDisconnectAll("a")
    \/ SessionExit("a")
    \/ TransportExit("a")

ClientSpec == Init /\ [][ClientNext]_vars

\* Callers that share the client and use the same endpoint: their calls
\* interleave at the awaits.
SharedServer == "resume-tools"

SharedNext ==
    \E c \in Callers :
        \/ StartRequest(c, SharedServer)
        \/ ConnectTransport(c)
        \/ ConnectSession(c)
        \/ ConnectInitialize(c)
        \/ Respond(c)
        \/ StartDisconnect(c, SharedServer)
        \/ StartDisconnectAll(c)
        \/ SessionExit(c)
        \/ TransportExit(c)

SharedSpec == Init /\ [][SharedNext]_vars

(***************************************************************************)
(* run_workflow (ResumeOptimizerOrchestrator) up to the composed tree, and  *)
(* the extraction it starts with (JobDescriptionExtractor).  Of a job_url   *)
(* the code uses the length and the pieces that '/' splits it into.         *)
(***************************************************************************)
JobUrls ==
    {[text |-> "https://example.com/job", len |-> 23, parts |-> 4],
     [text |-> "example.com/jobs/1", len |-> 18, parts |-> 3],
     [text |-> "about:blank", len |-> 11, parts |-> 1],
     [text |-> "", len |-> 0, parts |-> 1]}

\* What requests.get and the parsing of the page come to: a page text of
\* some length, or an exception whose message has some length.
ScrapeOutcomes ==
    {[ok |-> TRUE, len |-> 40], [ok |-> TRUE, len |-> 5000],
     [ok |-> FALSE, len |-> 50], [ok |-> FALSE, len |-> 150]}

\* What crew.kickoff() comes to: an answer that parses as a JSON object, an
\* answer with no JSON in it, or an exception.
CrewOutcomes == {"json", "text", "raise"}

\* The length of the text _scrape_webpage returns: the page's text, or
\* "Failed to scrape URL: <url>. Error: <message>".
scrape_webpage(url, net) ==
    IF net.ok THEN net.len ELSE 22 + url.len + 9 + net.len

\* job_url.split('/')[2] is evaluated outside any try.
create_fallback_job_data(url) ==
    IF url.parts < 3
    THEN Raise("IndexError", "list index out of range", <<>>)
    ELSE Return("fallback job data")

extract_job_description(url, net, crew) ==
    IF scrape_webpage(url, net) < 100
    THEN create_fallback_job_data(url)
    ELSE IF crew = "json"
    THEN Return("job data")
    ELSE IF crew = "text" /\ url.parts >= 3
    THEN Return("job data from text")
    \* crew.kickoff() raised, or job_url.split('/')[2] did inside the try
    ELSE Return("default job data")

\* run_workflow up to the await of self.workflow.run_async(ctx).
RunWorkflow ==
    \E url \in JobUrls, net \in ScrapeOutcomes, crew \in CrewOutcomes :
        LET job_data == extract_job_description(url, net, crew)
        IN  /\ run.pc \in {"idle", "returned", "raised"}
            /\ run' = IF job_data.kind = "return"
                      THEN [pc |-> "tree", job_url |-> url.text, scraped |-> net.ok,
                            crew |-> crew, job_description |-> job_data.value,
                            tree_invoked |-> TRUE, error |-> None]
                      ELSE [pc |-> "raised", job_url |-> url.text, scraped |-> net.ok,
                            crew |-> crew, job_description |-> None,
                            tree_invoked |-> FALSE, error |-> job_data.exc]
            /\ UNCHANGED <<handlerVars, clientVars>>

\* The composed tree returns and run_workflow collects the results.
TreeReturns ==
    /\ run.pc = "tree"
    /\ run' = [run EXCEPT !.pc = "returned"]
    /\ UNCHANGED <<handlerVars, clientVars>>

\* An exception leaves the composed tree; run_workflow logs and re-raises it.
TreeRaises ==
    /\ run.pc = "tree"
    /\ run' = [run EXCEPT !.pc = "raised", !.error = "Exception"]
    /\ UNCHANGED <<handlerVars, clientVars>>

WorkflowNext ==
    \/ RunWorkflow
    \/ TreeReturns
    \/ TreeRaises

WorkflowSpec == Init /\ [][WorkflowNext]_vars

(***************************************************************************)
(* The composed tree (_build_workflow) and its stages.  The stages get the  *)
(* context run_workflow passes to the tree and run_workflow reads the       *)
(* results back from it: there is one session state, the stages' and the    *)
(* orchestrator's.  A value of a key is a success entry ("value"), an      *)
(* error marker ("error"), or None when the key is not there.              *)
(***************************************************************************)
Tree ==
    <<{"profile_rag_agent", "skills_matcher_agent", "experience_relevance_agent"},
      {"content_alignment_agent"},
      {"ats_optimizer_agent", "keyword_enhancer_agent"},
      {"markdown_formatter_agent"},
      {"quality_validator_agent", "formatting_checker_agent"}>>

Agents == UNION {Tree[i] : i \in 1..Len(Tree)}

\* The stages written as BaseAgent classes: they assign ctx.session.state
\* themselves.  The others are LlmAgent objects with an output_key.
BaseAgents == {"profile_rag_agent", "markdown_formatter_agent", "formatting_checker_agent"}

\* The stages with no await between their reads and their write.
Synchronous == {"profile_rag_agent", "formatting_checker_agent"}

\* Variant: keyword_enhancer_agent is given the output key of its sibling.
output_key_shared(agent) ==
    IF agent = "profile_rag_agent" THEN "profile_data"
    ELSE IF agent = "skills_matcher_agent" THEN "skills_analysis"
    ELSE IF agent = "experience_relevance_agent" THEN "experience_scores"
    ELSE IF agent = "content_alignment_agent" THEN "aligned_data"
    ELSE IF agent = "ats_optimizer_agent" THEN "ats_analysis"
    ELSE IF agent = "keyword_enhancer_agent" THEN "ats_analysis"
    ELSE IF agent = "markdown_formatter_agent" THEN "resume_content"
    ELSE IF agent = "quality_validator_agent" THEN "quality_report"
    ELSE "formatting_report"

\* The key a stage writes.
output_key(agent) ==
    IF agent = "profile_rag_agent" THEN "profile_data"
    ELSE IF agent = "skills_matcher_agent" THEN "skills_analysis"
    ELSE IF agent = "experience_relevance_agent" THEN "experience_scores"
    ELSE IF agent = "content_alignment_agent" THEN "aligned_data"
    ELSE IF agent = "ats_optimizer_agent" THEN "ats_analysis"
    ELSE IF agent = "keyword_enhancer_agent" THEN "keyword_enhancements"
    ELSE IF agent = "markdown_formatter_agent" THEN "resume_content"
    ELSE IF agent = "quality_validator_agent" THEN "quality_report"
    ELSE "formatting_report"

\* The keys a stage reads: ctx.session.state.get(...) of the BaseAgent
\* classes, "Input from state" of the LlmAgent instructions.
reads(agent) ==
    IF agent = "profile_rag_agent" THEN {"job_data", "profile_id"}
    ELSE IF agent = "skills_matcher_agent" THEN {"job_data", "profile_data"}
    ELSE IF agent = "experience_relevance_agent" THEN {"job_data", "profile_data"}
    ELSE IF agent = "content_alignment_agent"
    THEN {"job_data", "profile_data", "skills_analysis", "experience_scores"}
    ELSE IF agent = "ats_optimizer_agent" THEN {"job_data", "aligned_data", "profile_data"}
    ELSE IF agent = "keyword_enhancer_agent" THEN {"job_data", "aligned_data", "skills_analysis"}
    ELSE IF agent = "markdown_formatter_agent" THEN {"profile_data", "job_data"}
    ELSE IF agent = "quality_validator_agent"
    THEN {"latex_content", "aligned_data", "ats_analysis", "profile_data"}
    ELSE {"resume_content"}

\* The keys run_workflow writes before it invokes the tree.
PreStepKeys == {"job_description", "resume_path"}

\* The keys run_workflow collects.
OutputKeys ==
    {"job_description", "profile_data", "skills_analysis", "experience_scores",
     "aligned_data", "ats_analysis", "keyword_enhancements", "resume_content",
     "quality_report", "formatting_report"}

StateKeys ==
    OutputKeys \cup PreStepKeys \cup UNION {reads(a) : a \in Agents}

\* What a stage can come to.  "ok": its entry is written.  "marker": it
\* caught its failure and wrote an error marker.  "empty": the model gave no
\* text and nothing is written.  "raise": an exception leaves the stage
\* (get_vector_store() is called outside profile_rag_agent's try; an
\* LlmAgent has no handler around its model call).
outcomes(agent) ==
    IF agent = "profile_rag_agent" THEN {"ok", "marker", "raise"}
    ELSE IF agent = "markdown_formatter_agent" THEN {"ok", "marker"}
    ELSE IF agent = "formatting_checker_agent" THEN {"ok"}
    ELSE {"ok", "empty", "raise"}

\* Variant: only the keys present in the state are collected.
final_results_present_only(state) ==
    [k \in {key \in OutputKeys : state[key] # None} |-> state[k]]

\* final_results: every documented key, with a default when it is absent.
final_results(state) ==
    [k \in OutputKeys |-> IF state[k] # None THEN state[k] ELSE "default"]

\* The fan-out of group i over the state.
FanOut(r, i, state) ==
    [r EXCEPT !.pc = "group", !.stage = i, !.state = state, !.snapshot = state,
              !.status = [a \in Agents |-> IF a \in Tree[i] THEN "ready" ELSE "out"],
              !.seen = [a \in Agents |-> state],
              !.delta = [a \in Agents |-> None]]

\* run_workflow up to the await of the tree, extraction having given a value
\* or a fallback, and the tree's first group started.
PipelineStart ==
    /\ run.pc \in {"idle", "returned", "raised"}
    /\ \E job_data \in {"value", "error"} :
        LET state == [k \in StateKeys |-> IF k = "job_description" THEN job_data
                                          ELSE IF k = "resume_path" THEN "value"
                                          ELSE None]
            r == [pc |-> "group", stage |-> 1, state |-> state, snapshot |-> state,
                  status |-> [a \in Agents |-> "out"],
                  seen |-> [a \in Agents |-> state],
                  delta |-> [a \in Agents |-> None],
                  writers |-> [k \in StateKeys |-> IF k \in PreStepKeys
                                                   THEN {"run_workflow"} ELSE {}],
                  joined |-> <<>>, result |-> None]
        IN  run' = FanOut(r, 1, state)
    /\ UNCHANGED <<handlerVars, clientVars>>

\* What stage a leaves when it ends with outcome o: a BaseAgent assigns the
\* session state, an LlmAgent hands its text over under its output_key, an
\* exception ends the tree and run_workflow re-raises it.
finish_stage(r, a, o) ==
    LET key == output_key(a)
        entry == IF o = "ok" THEN "value" ELSE "error"
    IN  IF o = "raise"
        THEN [r EXCEPT !.pc = "raised", !.status[a] = "raise"]
        ELSE IF o = "empty"
        THEN [r EXCEPT !.status[a] = "empty"]
        ELSE IF a \in BaseAgents
        THEN [r EXCEPT !.status[a] = o,
                       !.state[key] = entry,
                       !.writers[key] = @ \cup {a}]
        ELSE [r EXCEPT !.status[a] = o, !.delta[a] = entry]

\* A member of the running group starts: it reads the session state; a
\* stage with no await runs to its end.
MemberStart(a) ==
    /\ run.pc = "group"
    /\ run.status[a] = "ready"
    /\ LET r == [run EXCEPT !.status[a] = "running", !.seen[a] = run.state]
       IN  IF a \in Synchronous
           THEN \E o \in outcomes(a) : run' = finish_stage(r, a, o)
           ELSE run' = r
    /\ UNCHANGED <<handlerVars, clientVars>>

\* A member resumes from its model call and ends.
MemberFinish(a) ==
    /\ run.pc = "group"
    /\ run.status[a] = "running"
    /\ \E o \in outcomes(a) : run' = finish_stage(run, a, o)
    /\ UNCHANGED <<handlerVars, clientVars>>

\* Every member of the group has ended: what the LlmAgent members handed
\* over is merged into the state, and the next group starts or, after the
\* last one, run_workflow collects the results and returns.
Join ==
    /\ run.pc = "group"
    /\ \A a \in Tree[run.stage] : run.status[a] \in {"ok", "marker", "empty"}
    /\ LET handed == {a \in Tree[run.stage] : run.delta[a] # None}
           state == [k \in StateKeys |->
                        IF \E a \in handed : output_key(a) = k
                        THEN run.delta[CHOOSE a \in handed : output_key(a) = k]
                        ELSE run.state[k]]
           r == [run EXCEPT !.writers = [k \in StateKeys |->
                                            @[k] \cup {a \in handed : output_key(a) = k}],
                            !.joined = Append(@, run.status)]
       IN  run' = IF run.stage < Len(Tree)
                  THEN FanOut(r, run.stage + 1, state)
                  ELSE [r EXCEPT !.pc = "returned", !.state = state,
                                 !.result = final_results(state)]
    /\ UNCHANGED <<handlerVars, clientVars>>

PipelineNext ==
    \/ PipelineStart
    \/ \E a \in Agents : MemberStart(a)
    \/ \E a \in Agents : MemberFinish(a)
    \/ Join

PipelineSpec == Init /\ [][PipelineNext]_vars

(***************************************************************************)
(* The calculate-ats-score skill with its tool call spelled out: what      *)
(* connect_server and session.call_tool do is the endpoint's to choose,    *)
(* what call_tool and the skill make of it is the code's.                  *)
(***************************************************************************)
\* connect_server: the session is reused, or the endpoint is not configured,
\* or one of the three awaited steps of connecting fails, or all succeed.
ConnectOutcomes ==
    {"reused", "connected", "unknown_server",
     "transport_failed", "session_failed", "initialize_failed"}

\* What a tools/call answer carries: a JSON object with or without
\* total_score, JSON that is no object, text that is no JSON, content with
\* no text, or no content at all.
ToolContents ==
    {"object_with_score", "object_without_score", "array", "text", "no_text", "empty"}

ScoreKeys ==
    {"total_score", "keyword_score", "skills_score", "experience_score",
     "format_score", "missing_keywords", "matched_skills"}

\* call_tool: the value it returns (by its Python type, a dict with its
\* keys) or the exception it raises.
call_tool(connect, call_ok, content) ==
    IF connect = "unknown_server"
    THEN Raise("ValueError", "Unknown MCP server", <<"resume-tools">>)
    ELSE IF connect \in {"transport_failed", "session_failed", "initialize_failed"}
    THEN Raise("ConnectionError", "MCP connection failed", <<connect>>)
    ELSE IF ~call_ok
    THEN Raise("RuntimeError", "Tool execution failed", <<"calculate_ats_score">>)
    ELSE IF content = "object_with_score"
    THEN Return([type |-> "dict", keys |-> ScoreKeys])
    ELSE IF content = "object_without_score"
    THEN Return([type |-> "dict", keys |-> {"error"}])
    ELSE IF content = "array"
    THEN Return([type |-> "list", keys |-> {}])
    ELSE IF content = "text"
    THEN Return([type |-> "str", keys |-> {}])
    ELSE IF content = "no_text"
    THEN Return([type |-> "content", keys |-> {}])
    ELSE Return([type |-> "NoneType", keys |-> {}])

\* Variant: only a failed tools/call (RuntimeError) is replaced by the
\* fallback score.
calculate_ats_score_runtime_only(input, tool) ==
    IF input = "missing"
    THEN Raise("ValueError", "Both 'resume_text' and 'job_description' are required", <<>>)
    ELSE IF tool.kind = "return" /\ tool.value.type = "dict"
    THEN Return([source |-> "mcp", keys |-> ScoreKeys,
                 defaulted |-> ScoreKeys \ tool.value.keys])
    ELSE IF tool.kind = "return"
    THEN Raise("AttributeError", "object has no attribute 'get'", <<tool.value.type>>)
    ELSE IF tool.exc = "RuntimeError"
    THEN Return([source |-> "fallback", keys |-> ScoreKeys, defaulted |-> {}])
    ELSE tool

\* _execute_calculate_ats_task with the outcome of its call_tool: the seven
\* keys read with result.get(key, default), and the local keyword score for
\* whatever is raised inside the try.
calculate_ats_score(input, tool) ==
    IF input = "missing"
    THEN Raise("ValueError", "Both 'resume_text' and 'job_description' are required", <<>>)
    ELSE IF tool.kind = "return" /\ tool.value.type = "dict"
    THEN Return([source |-> "mcp", keys |-> ScoreKeys,
                 defaulted |-> ScoreKeys \ tool.value.keys])
    ELSE Return([source |-> "fallback", keys |-> ScoreKeys, defaulted |-> {}])

\* The skill run for a task (_execute_task) or for a message/send request.
CalculateAts ==
    \E via \in {"task", "message"}, input \in Inputs,
       connect \in ConnectOutcomes, call_ok \in BOOLEAN, content \in ToolContents :
        LET tool == call_tool(connect, call_ok, content)
            out == calculate_ats_score(input, tool)
            started == execute_task_start(A2ATask(1, "calculate-ats-score", input, now), now)
            params == [message |-> "valid", skill_id |-> "calculate-ats-score",
                       input |-> input]
            answer == IF out.kind = "return"
                      THEN Return([message |-> [role |-> "agent",
                                                author |-> "resume-optimizer-agent",
                                                text |-> out.value],
                                   skill_id |-> "calculate-ats-score",
                                   result |-> out.value])
                      ELSE out
        IN  /\ last' = [op |-> "calculate-ats-score", via |-> via, input |-> input,
                        connect |-> connect, call_ok |-> call_ok, content |-> content,
                        tool |-> tool, out |-> out,
                        task |-> execute_task_finish(started, out, now),
                        response |-> handle_request(params, answer)]
            /\ UNCHANGED <<tasks, exec, workflow, now, clientVars, run>>

AtsNext == CalculateAts

AtsSpec == Init /\ [][AtsNext]_vars

(***************************************************************************)
(* Properties of the task lifecycle.                                       *)
(***************************************************************************)
LegalEdges ==
    {<<PENDING, IN_PROGRESS>>, <<IN_PROGRESS, COMPLETED>>, <<IN_PROGRESS, FAILED>>,
     <<PENDING, CANCELLED>>, <<IN_PROGRESS, CANCELLED>>}

\* C1: every change of a task's status is one of pending->in_progress,
\* in_progress->completed, in_progress->failed, pending->cancelled,
\* in_progress->cancelled; in particular none starts from a terminal status.
\* (last.path lists the statuses a stretch of code gives the task, in order.)
C1_OnlyLegalEdges ==
    "path" \in DOMAIN last =>
        \A k \in 1..(Len(last.path) - 1) :
            last.path[k] # last.path[k + 1] =>
                <<last.path[k], last.path[k + 1]>> \in LegalEdges

\* C2: a task cancelled while its skill is in flight is still cancelled
\* after the step that ends the work (it is never moved to completed).
C2_CancelledInFlightStaysCancelled ==
    [][\A id \in TaskIds :
          (tasks[id].status = CANCELLED /\ exec[id] = "running")
              => tasks'[id].status = CANCELLED]_vars

\* C3: tasks/cancel on a completed or failed task answers with an error and
\* leaves the task as it is; a completed or failed task is never changed by
\* any later step.
C3_FinishedTaskIsFrozen ==
    [][\A id \in TaskIds :
          tasks[id].status \in {COMPLETED, FAILED} =>
              /\ tasks'[id] = tasks[id]
              /\ (last'.op = "tasks/cancel" /\ last'.params.task_id = id)
                    => IsError(last'.response)]_vars

C3_Witness ==
    /\ last.op = "tasks/cancel"
    /\ last.before \in {COMPLETED, FAILED}
    /\ IsError(last.response)
    /\ tasks[last.params.task_id].status = last.before

\* C4: tasks/cancel answers with a task result exactly when the task was
\* pending or in_progress; from completed, failed and cancelled it answers
\* with an error.
C4_CancelOnlyFromLiveStatus ==
    (last.op = "tasks/cancel" /\ last.before # None) =>
        (IsResult(last.response) <=> last.before \in {PENDING, IN_PROGRESS})

\* C5: tasks/create with a skill of the manifest appends exactly one task,
\* leaves the others as they are, and answers with that task in status
\* pending while its execution has not begun.
C5_CreateAnswersPending ==
    [][(last'.op = "tasks/create" /\ last'.params.skill_id \in SkillIds) =>
          /\ IsResult(last'.response)
          /\ Len(tasks') = Len(tasks) + 1
          /\ SubSeq(tasks', 1, Len(tasks)) = tasks
          /\ last'.response.result.task = tasks'[Len(tasks')]
          /\ last'.response.result.task.status = PENDING
          /\ exec'[Len(tasks')] = "scheduled"]_vars

C5_Witness ==
    /\ last.op = "tasks/create"
    /\ IsResult(last.response)
    /\ last.response.result.task.status = PENDING
    /\ Len(tasks) = MaxTasks

\* C6: with the spawned execution scheduled fairly and the skill ending,
\* every created task that is never cancelled is eventually completed or
\* failed (tasks/get answers with the table's entry).
C6_EveryTaskEnds ==
    \A id \in 1..MaxTasks :
        (id \in TaskIds) ~>
            (id \in TaskIds /\ tasks[id].status \in {COMPLETED, FAILED, CANCELLED})

C6_Witness ==
    /\ last.op = "tasks/get"
    /\ IsResult(last.response)
    /\ last.response.result.task.status \in {COMPLETED, FAILED}
    /\ exec[last.params.task_id] = "done"

\* C7: a task has output and completed_at exactly when it is completed and
\* error exactly when it is failed; so pending, in_progress and cancelled
\* tasks have none of the three.
C7_FieldsFollowStatus ==
    \A id \in TaskIds :
        /\ (tasks[id].output # None) <=> (tasks[id].status = COMPLETED)
        /\ (tasks[id].completed_at # NoTime) <=> (tasks[id].status = COMPLETED)
        /\ (tasks[id].error # None) <=> (tasks[id].status = FAILED)

C7_Witness ==
    /\ last.op = "_execute_task"
    /\ last.path[1] = CANCELLED
    /\ tasks[last.task_id].status = COMPLETED
    /\ tasks[last.task_id].output # None

(***************************************************************************)
(* Properties of the requests that only read the handler's state.          *)
(***************************************************************************)
\* The tasks a status filter selects (all of them without a filter).
Selected(status) ==
    {i \in TaskIds : status = None \/ tasks[i].status = status}

\* C8: tasks/list answers with the slice [offset, offset+limit) of the tasks
\* of the filtered status in created_at-descending order, and with their
\* number as total, whatever limit and offset are; without a filter every
\* task counts.  (An entry stands at position offset+k of a descending
\* order iff fewer than offset+k selected tasks are newer than it and at
\* least offset+k are not older.)
C8_ListIsPageOfNewestFirst ==
    last.op = "tasks/list" =>
        LET p == last.params
            sel == Selected(p.status)
            total == Cardinality(sel)
            newer(t) == Cardinality({i \in sel : tasks[i].created_at > t.created_at})
            notOlder(t) == Cardinality({i \in sel : tasks[i].created_at >= t.created_at})
        IN  /\ IsResult(last.response)
            /\ LET r == last.response.result
               IN  /\ r.total = total
                   /\ Len(r.tasks) = IF total <= p.offset THEN 0
                                     ELSE Min(p.limit, total - p.offset)
                   /\ \A k \in 1..Len(r.tasks) :
                        /\ r.tasks[k].id \in sel
                        /\ r.tasks[k] = tasks[r.tasks[k].id]
                        /\ newer(r.tasks[k]) <= p.offset + k - 1
                        /\ notOlder(r.tasks[k]) >= p.offset + k
                   /\ \A k, l \in 1..Len(r.tasks) :
                        k < l => /\ r.tasks[k].id # r.tasks[l].id
                                 /\ r.tasks[k].created_at >= r.tasks[l].created_at

C8_Witness ==
    /\ last.op = "tasks/list"
    /\ last.params.status = FAILED
    /\ last.params.offset = 1
    /\ last.params.limit = 1
    /\ last.response.result.total = 2
    /\ Len(last.response.result.tasks) = 1
    /\ Len(tasks) = 3
    /\ \E i \in TaskIds : tasks[i].status # FAILED
    /\ \E i \in TaskIds : tasks[i].created_at > last.response.result.tasks[1].created_at

\* The skill ids an error's data carries.
SkillIdsIn(data) ==
    IF data.kind = "params_received" /\ "skill_id" \in DOMAIN data.value
    THEN {data.value.skill_id} \cap SkillIds
    ELSE {}

\* C9: message/send with a message and a skill_id that is not in the manifest
\* answers with error -32602 whose data lists the valid skill ids, and runs
\* no skill.
C9_UnknownSkillErrorListsSkills ==
    (/\ last.op = "message/send"
     /\ last.params.message = "valid"
     /\ last.params.skill_id = UnknownSkill) =>
        /\ IsError(last.response)
        /\ last.response.error.code = -32602
        /\ SkillIds \subseteq SkillIdsIn(last.response.error.data)
        /\ ~last.ran

\* C10: when run_workflow raises while optimize-resume is served, the task
\* executing it ends failed with the cause as its error, and a message/send
\* answers with InternalError (-32603).
C10_WorkflowFailurePropagates ==
    /\ (last.op = "_execute_task" /\ last.workflow_raised) =>
            /\ tasks[last.task_id].status = FAILED
            /\ tasks[last.task_id].error # None
    /\ (last.op = "message/send" /\ last.workflow_raised) =>
            /\ IsError(last.response)
            /\ last.response.error.code = -32603

\* The fields the manifest's input schema of a skill marks as required.
required(skill_id) ==
    IF skill_id = "optimize-resume" THEN {"resume_content", "job_description"}
    ELSE IF skill_id = "calculate-ats-score" THEN {"resume_text", "job_description"}
    ELSE {}

\* C11: a message/send whose input lacks a field the skill's manifest schema
\* requires is answered with error -32602, never with a result.
C11_MissingRequiredIsInvalidParams ==
    (/\ last.op = "message/send"
     /\ last.params.message = "valid"
     /\ last.params.skill_id \in SkillIds
     /\ required(last.params.skill_id) # {}
     /\ last.params.input = "missing") =>
        /\ IsError(last.response)
        /\ last.response.error.code = -32602

\* C12: handle_request answers every request: an unregistered method with
\* error -32601 and no handler invoked, a ValueError of the handler with
\* -32602, any other exception with -32603 and a traceback as data, a return
\* with the result; the response carries the request's id and exactly one of
\* result and error.
C12_EveryRequestIsAnswered ==
    last.op = "handle_request" =>
        LET resp == last.response
        IN  /\ resp.id = last.request.id
            /\ IsError(resp) # IsResult(resp)
            /\ last.request.method \notin methods =>
                    /\ IsError(resp)
                    /\ resp.error.code = -32601
                    /\ ~last.invoked
            /\ (last.request.method \in methods /\ last.out.kind = "return") =>
                    /\ IsResult(resp)
                    /\ resp.result = last.out.value
            /\ (last.request.method \in methods /\ last.out.kind = "raise") =>
                    /\ IsError(resp)
                    /\ resp.error.code = IF last.out.exc = "ValueError" THEN -32602
                                         ELSE -32603
                    /\ last.out.exc # "ValueError" =>
                            resp.error.data.kind = "traceback"

C12_Witness ==
    /\ last.op = "handle_request"
    /\ last.invoked
    /\ last.out.kind = "raise"
    /\ last.out.exc = "ValueError"
    /\ IsError(last.response)
    /\ last.response.id = MaxRequestId

\* C13: a tasks/create with a missing or unknown skill_id answers with error
\* -32602, leaves the task table as it was and schedules no execution; a
\* message/send with an unknown skill_id runs no skill and no workflow.
C13_SkillIsValidatedFirst ==
    [][/\ (last'.op = "tasks/create" /\ last'.params.skill_id \notin SkillIds) =>
            /\ IsError(last'.response)
            /\ last'.response.error.code = -32602
            /\ tasks' = tasks
            /\ exec' = exec
       /\ (/\ last'.op = "message/send"
           /\ last'.params.message = "valid"
           /\ last'.params.skill_id = UnknownSkill) =>
            /\ IsError(last'.response)
            /\ last'.response.error.code = -32602
            /\ ~last'.ran]_vars

C13_Witness ==
    /\ last.op = "tasks/create"
    /\ last.params.skill_id = UnknownSkill
    /\ IsError(last.response)
    /\ tasks = <<>>
    /\ exec = <<>>

\* C14: a list_tools that follows a list_tools on the same endpoint, with no
\* disconnect of it in between, performs no handshake, sends no tools/list
\* and returns the list the first returned; the first sent exactly one
\* tools/list, after exactly one handshake when the endpoint had no session.
C14_SecondListIsServedFromCache ==
    \A c \in Callers :
        LET call == calls[c]
        IN  call.op = "list_tools" =>
                /\ call.prev # None =>
                        /\ call.pc = "done"
                        /\ call.hs = 0
                        /\ call.reqs = 0
                        /\ call.result = call.prev
                /\ (call.prev = None /\ call.pc = "done" /\ call.error = None) =>
                        /\ call.reqs = 1
                        /\ call.hs = IF call.ready THEN 0 ELSE 1
                        /\ call.result = tools(call.server)

C14_Witness ==
    /\ calls["a"].op = "list_tools"
    /\ calls["a"].pc = "done"
    /\ calls["a"].prev = tools("aux-tools")
    /\ calls["a"].result = tools("aux-tools")
    /\ calls["a"].reqs = 0

\* The sessions of endpoint name that were handshaken and not torn down.
LiveSessions(name) ==
    {i \in 1..Len(conns) : /\ conns[i].server = name
                           /\ conns[i].initialized
                           /\ conns[i].session = "open"}

\* C15: whatever the interleaving of the calls that reach an endpoint, it
\* has at most one handshaken session at a time: none is created beside the
\* one in use and left behind when self.sessions is overwritten.
C15_OneSessionPerEndpoint ==
    \A name \in Servers : Cardinality(LiveSessions(name)) <= 1

\* C16: a disconnect_server that found the endpoint connected has, when it
\* returns, torn down the session and then the transport.
C16_TeardownClosesSessionThenTransport ==
    \A c \in Callers :
        LET call == calls[c]
        IN  (call.op = "disconnect_server" /\ call.pc = "done" /\ call.conn # NoConn) =>
                conns[call.conn].teardown = <<"session", "transport">>

\* C17: when disconnect_server(name) has returned, the teardown having raised
\* or not, name has no session and no cached tool list; and a list_tools on
\* an endpoint without a session performs a handshake and sends a tools/list.
C17_DisconnectLeavesUnconnected ==
    \A c \in Callers :
        LET call == calls[c]
        IN  /\ (call.op = "disconnect_server" /\ call.pc = "done") =>
                    /\ call.error = None
                    /\ ~is_connected(sessions, call.server)
                    /\ ~cached(tools_cache, call.server)
            /\ (/\ call.op = "list_tools"
                /\ call.server \in Servers
                /\ ~call.ready
                /\ call.pc = "done"
                /\ call.error = None) =>
                    /\ call.hs = 1
                    /\ call.reqs = 1

C17_Witness ==
    /\ calls["a"].op = "disconnect_server"
    /\ calls["a"].pc = "done"
    /\ calls["a"].ready
    /\ calls["a"].conn # NoConn
    /\ conns[calls["a"].conn].session = "failed"
    /\ ~is_connected(sessions, calls["a"].server)

\* C18: disconnect_all raises nothing, and when it has returned it has
\* attempted the teardown of every endpoint that had a session when it was
\* called, and no endpoint has a session.
C18_DisconnectAllReachesEveryEndpoint ==
    \A c \in Callers :
        LET call == calls[c]
        IN  call.op = "disconnect_all" =>
                /\ call.error = None
                /\ call.pc = "done" =>
                        /\ call.tried = call.was
                        /\ \A n \in Servers : ~is_connected(sessions, n)
                        /\ \A i \in 1..Len(conns) :
                                conns[i].server \in call.was /\ conns[i].initialized =>
                                    conns[i].teardown # <<>>

C18_Witness ==
    /\ calls["a"].op = "disconnect_all"
    /\ calls["a"].pc = "done"
    /\ calls["a"].was = Servers
    /\ calls["a"].tried = Servers
    /\ \A i \in 1..Len(conns) : conns[i].session = "failed"

C20_ExtractionNeverAborts ==
    run.pc # "idle" =>
        /\ run.job_description # None
        /\ run.tree_invoked


\* The members of the running group that have read the session state.
Started == {a \in Agents : run.status[a] \in {"running", "ok", "marker", "empty", "raise"}}

InPipeline == run.pc \in {"group", "returned", "raised"}

\* C21: while a Parallel group runs, every member that has started observed
\* the state as it was at the group's fan-out, so none observed a write of a
\* sibling made before the join.
C21_MembersSeeTheFanOutSnapshot ==
    (InPipeline /\ run.pc = "group") =>
        \A a \in Started : run.seen[a] = run.snapshot

\* How the members of the first (three-member) group ended: at its join, or
\* so far while it runs.
FirstGroupStatus ==
    IF Len(run.joined) >= 1 THEN run.joined[1] ELSE run.status

FirstGroupFailed == {a \in Tree[1] : FirstGroupStatus[a] \in {"marker", "raise"}}

FirstGroupSucceeded == {a \in Tree[1] : FirstGroupStatus[a] = "ok"}

\* C22: when one member of the three-member group fails and the two others
\* succeed, the failure does not end the run, and after the join the state
\* holds an error marker under the failing member's key and a success entry
\* under each of the two others' keys.
C22_OneFailureIsAbsorbed ==
    (/\ InPipeline
     /\ Cardinality(FirstGroupFailed) = 1
     /\ Cardinality(FirstGroupSucceeded) = 2) =>
        /\ ~(run.pc = "raised" /\ run.stage = 1)
        /\ Len(run.joined) >= 1 =>
            /\ \A a \in FirstGroupFailed : run.state[output_key(a)] = "error"
            /\ \A a \in FirstGroupSucceeded : run.state[output_key(a)] = "value"

C25_ResultHasEveryOutputKey ==
    run.pc = "returned" => DOMAIN run.result = OutputKeys

C25_Witness ==
    /\ run.pc = "returned"
    /\ \E k \in OutputKeys : run.state[k] = None
    /\ \E k \in OutputKeys : run.state[k] = "error"
    /\ \E k \in OutputKeys : run.state[k] = "value"

\* C30: every key a stage reads was written before the stage's group
\* started, by the pre-steps or by a stage of an earlier group.
C30_ReadsAreWrittenEarlier ==
    (InPipeline /\ run.pc = "group") =>
        \A a \in Started : \A k \in reads(a) : run.snapshot[k] # None


\* C28: an endpoint with a cached tool list has a live session, whatever
\* the interleaving of list_tools, call_tool, disconnect_server and
\* disconnect_all.
C28_CachedImpliesConnected ==
    \A name \in Servers : cached(tools_cache, name) => is_connected(sessions, name)


ReadOnlyMethods == {"message/send", "tasks/get", "tasks/list", "skills/list", "agent/info"}

\* C29: no step changes the id, skill_id, input or created_at of a task in
\* the table or removes a task, and a message/send, tasks/get, tasks/list,
\* skills/list or agent/info request leaves the whole table as it was.
C29_Frame ==
    /\ Len(tasks') >= Len(tasks)
    /\ \A i \in 1..Len(tasks) :
          /\ tasks'[i].id = tasks[i].id
          /\ tasks'[i].skill_id = tasks[i].skill_id
          /\ tasks'[i].input = tasks[i].input
          /\ tasks'[i].created_at = tasks[i].created_at
    /\ (last' # last /\ last'.op \in ReadOnlyMethods) => tasks' = tasks

AtsRan == last.op = "calculate-ats-score" /\ last.input = "complete"

\* C24: the calculate-ats-score skill given both texts yields a result with
\* total_score whatever the tool client does: the task is COMPLETED with it
\* and the request is answered with it.
C24_AtsAlwaysYieldsAScore ==
    AtsRan =>
        /\ last.out.kind = "return"
        /\ "total_score" \in last.out.value.keys
        /\ last.via = "task" =>
            /\ last.task.status = COMPLETED
            /\ last.task.output = last.out.value
        /\ last.via = "message" =>
            /\ IsResult(last.response)
            /\ last.response.result.result = last.out.value

C24_Witness ==
    /\ AtsRan
    /\ last.tool.kind = "return"
    /\ last.tool.value.type = "NoneType"
    /\ last.out.value.source = "fallback"
    /\ last.task.status = COMPLETED


\* C26: GET /v1/tasks/{task_id} answers 404 for a task_id that is not in
\* the task table, and 500 only for another error.
C26_UnknownTaskIs404 ==
    last.op = "GET /v1/tasks/{task_id}" =>
        /\ last.task_id \notin TaskIds => last.http.status = 404
        /\ last.http.status = 500 => last.task_id \in TaskIds

\* C27: POST /v1/tasks answers 400 whenever tasks/create answers a JSON-RPC
\* error, and 500 only when the request body cannot be processed.
C27_CreateErrorIs400 ==
    last.op = "POST /v1/tasks" =>
        /\ (last.json_ok /\ IsError(last.http.response)) => last.http.status = 400
        /\ last.http.status = 500 => ~last.json_ok

=============================================================================
